---- MODULE Spec2Model ----
(***************************************************************************)
(* Model of mlboptimizer.OptimizerMLB: the constraint model built by       *)
(* create_model / add_model_constraints, the per-lineup flexible           *)
(* constraints added by create_lineup, the solve and the extraction of the *)
(* lineup, and the run_lineups loop that accumulates the session lists.    *)
(*                                                                         *)
(* A CpModel is modelled as the list of its linear constraints over the    *)
(* boolean decision variables pitchers_var[i], hitters_var[j] and (in a    *)
(* copy extended by add_autostack_constraint) team_stack_var[t].  The      *)
(* external CP-SAT solver is modelled by its contract: it returns          *)
(* INFEASIBLE when no assignment satisfies every constraint of the model   *)
(* and otherwise any one assignment of maximum objective value.            *)
(*                                                                         *)
(* Spec is the sessions of run_lineups calls on one optimizer, SpecCsv the *)
(* sessions that also export with csv_output, and SpecMain the entry point *)
(* main.py from the tables it reads to the construction of the optimizer   *)
(* (data_processing.transform_data, create_dummy_dfs, OptimizerMLB).       *)
(***************************************************************************)
EXTENDS Integers, Sequences, FiniteSets, TLC

(***************************************************************************)
(* Bounds of the exploration.                                              *)
(***************************************************************************)
\* the run_lineups loop is explored while the session holds fewer lineups
MaxLineups == 3
\* largest num_lineups argument explored
MaxNum == 2

(***************************************************************************)
(* Rows of the roster tables (columns of the DataFrames that the optimizer *)
(* reads).  "Game" is the "Game Info" column and "NameID" the "Name + ID"  *)
(* column, the display string of the player.                               *)
(***************************************************************************)
Row(name, pos, salary, points, team, opp, game) ==
    [Name |-> name, NameID |-> name \o " (id)", Position |-> pos,
     Salary |-> salary, ppg_projection |-> points, team |-> team,
     opp |-> opp, Game |-> game]

\* hitter_pitcher_split: the "index" column is the row's 0-based position
reset_index(rows) ==
    [i \in 1..Len(rows) |->
        [Name |-> rows[i].Name, NameID |-> rows[i].NameID,
         Position |-> rows[i].Position, Salary |-> rows[i].Salary,
         ppg_projection |-> rows[i].ppg_projection,
         team |-> rows[i].team, opp |-> rows[i].opp, Game |-> rows[i].Game,
         index |-> i - 1]]

\* position_bools: 1 if the position string contains the position name;
\* the position strings of the rosters below hold one position each, for
\* which containment is equality ("P" is contained in "SP" and "RP")
position_bool(row, pos) ==
    IF pos = "P" THEN (IF row.Position \in {"P", "SP", "RP"} THEN 1 ELSE 0)
    ELSE (IF row.Position = pos THEN 1 ELSE 0)

\* pandas.get_dummies(rows[field]): one column per distinct value
get_dummies(vals) ==
    [columns |-> {vals[i] : i \in 1..Len(vals)},
     cell |-> [i \in 1..Len(vals) |->
                 [c \in {vals[k] : k \in 1..Len(vals)} |->
                     IF vals[i] = c THEN 1 ELSE 0]]]

\* column field of a table, as the sequence of its values
Col(rows, field) == [i \in 1..Len(rows) |-> rows[i][field]]

create_dummy_dfs(hs, ps) ==
    [hitter_name  |-> get_dummies(Col(hs, "Name")),
     hitter_team  |-> get_dummies(Col(hs, "team")),
     hitter_game  |-> get_dummies(Col(hs, "Game")),
     pitcher_opp  |-> get_dummies(Col(hs, "opp")),
     pitcher_game |-> get_dummies(Col(ps, "Game"))]

(***************************************************************************)
(* Linear constraints.  A constraint is built from the coefficient vectors *)
(* cp, ch of pitchers_var and hitters_var (by row position) and ct of      *)
(* team_stack_var (by team).  It is stored with each linear expression in  *)
(* normal form: the set of <<w, V>>, w a non-zero coefficient and V the    *)
(* variables that carry it.                                                *)
(***************************************************************************)
Zeros(n) == [i \in 1..n |-> 0]
NoTeamVars == [t \in {} |-> 0]

Terms(coef) ==
    { << w, {x \in DOMAIN coef : coef[x] = w} >> :
        w \in {coef[x] : x \in DOMAIN coef} \ {0} }

Lin(cp, ch, ct, op, rhs) ==
    [p |-> Terms(cp), h |-> Terms(ch), t |-> Terms(ct), op |-> op, rhs |-> rhs]

RECURSIVE Dot(_, _)
\* value of a linear expression when exactly the variables in S are 1
Dot(terms, S) ==
    IF terms = {} THEN 0
    ELSE LET tm == CHOOSE y \in terms : TRUE
         IN  tm[1] * Cardinality(tm[2] \cap S) + Dot(terms \ {tm}, S)

Cmp(lhs, op, rhs) ==
    CASE op = "==" -> lhs = rhs
      [] op = "<=" -> lhs <= rhs
      [] op = ">=" -> lhs >= rhs

Holds(c, P, H, T) == Cmp(Dot(c.p, P) + Dot(c.h, H) + Dot(c.t, T), c.op, c.rhs)

(***************************************************************************)
(* The decision variables and the base model (constraints that are the     *)
(* same for every lineup).  A builder returns the constraints it adds, in  *)
(* the order the code adds them.  Alphabet lists the group keys in the     *)
(* (sorted) order in which get_dummies lays out its columns.               *)
(***************************************************************************)
Alphabet == <<"A", "B", "C", "D", "E", "F", "G1", "G2", "G3",
              "h01", "h02", "h03", "h04", "h05", "h06", "h07", "h08", "h09",
              "h10", "h11", "h12", "h13", "h14", "h15", "h16", "zed">>

\* the columns of a dummy table, in order
Columns(d) == SelectSeq(Alphabet, LAMBDA x : x \in d.columns)

\* column col of dummy table d as a coefficient vector; d.loc[i, col]
Loc(d, col) == [i \in DOMAIN d.cell |-> d.cell[i][col]]

Ones(n) == [i \in 1..n |-> 1]

\* variant: at most 2 pitchers
number_players_upto(np, nh) ==
    << Lin(Ones(np), Zeros(nh), NoTeamVars, "<=", 2),
       Lin(Zeros(np), Ones(nh), NoTeamVars, "==", 8) >>

\* NUMBER PLAYERS constraint (optimizer_mlb.py 50-55)
number_players(np, nh) ==
    << Lin(Ones(np), Zeros(nh), NoTeamVars, "==", 2),
       Lin(Zeros(np), Ones(nh), NoTeamVars, "==", 8) >>

\* variant: a name may be used twice
name_twice(np, d) ==
    LET cols == Columns(d.hitter_name)
    IN  [k \in 1..Len(cols) |->
            Lin(Zeros(np), Loc(d.hitter_name, cols[k]), NoTeamVars, "<=", 2)]

\* each player name used only once (optimizer_mlb.py 59-68)
name_once(np, d) ==
    LET cols == Columns(d.hitter_name)
    IN  [k \in 1..Len(cols) |->
            Lin(Zeros(np), Loc(d.hitter_name, cols[k]), NoTeamVars, "<=", 1)]

SalaryCap == 50000

\* variant: the cap is ten times as high
salary_cap_tenfold(hs, ps) ==
    << Lin([i \in 1..Len(ps) |-> ps[i].Salary],
           [i \in 1..Len(hs) |-> hs[i].Salary], NoTeamVars, "<=",
           10 * SalaryCap) >>

\* SALARY constraint (optimizer_mlb.py 70-84)
salary_cap(hs, ps) ==
    << Lin([i \in 1..Len(ps) |-> ps[i].Salary],
           [i \in 1..Len(hs) |-> hs[i].Salary], NoTeamVars, "<=", SalaryCap) >>

\* one POSITION constraint (optimizer_mlb.py 86-139)
position_quota(hs, np, pos, n) ==
    Lin(Zeros(np), [i \in 1..Len(hs) |-> position_bool(hs[i], pos)],
        NoTeamVars, "==", n)

\* variant: at most 3 outfielders
position_quotas_of_upto(hs, np) ==
    << position_quota(hs, np, "C", 1),  position_quota(hs, np, "1B", 1),
       position_quota(hs, np, "2B", 1), position_quota(hs, np, "3B", 1),
       position_quota(hs, np, "SS", 1),
       Lin(Zeros(np), [i \in 1..Len(hs) |-> position_bool(hs[i], "OF")],
           NoTeamVars, "<=", 3) >>

position_quotas(hs, np) ==
    << position_quota(hs, np, "C", 1),  position_quota(hs, np, "1B", 1),
       position_quota(hs, np, "2B", 1), position_quota(hs, np, "3B", 1),
       position_quota(hs, np, "SS", 1), position_quota(hs, np, "OF", 3) >>

\* variant: the pitcher's variable has coefficient 1
pitcher_not_facing_unit(ps, nh, d, i) ==
    Lin([k \in 1..Len(ps) |-> IF k = i THEN 1 ELSE 0],
        Loc(d.pitcher_opp, ps[i].team), NoTeamVars, "<=", 8)

\* PITCHER NOT FACING HITTERS: the constraint of pitcher i
\* (optimizer_mlb.py 142-152); defined when the pitcher's team is a column
pitcher_not_facing(ps, nh, d, i) ==
    Lin([k \in 1..Len(ps) |-> IF k = i THEN 8 ELSE 0],
        Loc(d.pitcher_opp, ps[i].team), NoTeamVars, "<=", 8)

\* PLAYERS FROM AT LEAST 2 GAMES: the constraint of one game
\* (optimizer_mlb.py 158-172); defined when game is a hitter_game column
game_spread(d, game) ==
    Lin(Loc(d.pitcher_game, game), Loc(d.hitter_game, game),
        NoTeamVars, "<=", 9)

\* variant: 6 hitters of one team allowed
team_cap_six(np, d) ==
    LET cols == Columns(d.hitter_team)
    IN  [k \in 1..Len(cols) |->
            Lin(Zeros(np), Loc(d.hitter_team, cols[k]), NoTeamVars, "<=", 6)]

\* NO MORE THAN 5 HITTERS FROM ONE TEAM (optimizer_mlb.py 174-183)
team_cap(np, d) ==
    LET cols == Columns(d.hitter_team)
    IN  [k \in 1..Len(cols) |->
            Lin(Zeros(np), Loc(d.hitter_team, cols[k]), NoTeamVars, "<=", 5)]

\* smallest position of keys whose key is not a column, or Len(keys)+1
RECURSIVE FirstBad(_, _, _)
FirstBad(keys, columns, from) ==
    IF from > Len(keys) THEN from
    ELSE IF keys[from] \in columns THEN FirstBad(keys, columns, from + 1)
    ELSE from

\* variant: the builder stops after the position constraints
add_model_constraints_head(hs, ps, d) ==
    [cons |-> number_players(Len(ps), Len(hs)) \o name_once(Len(ps), d)
                \o salary_cap(hs, ps) \o position_quotas(hs, Len(ps)),
     raised |-> "none"]

(***************************************************************************)
(* add_model_constraints.  The two loops that index a dummy table by a key *)
(* taken from the other table raise KeyError at the first key that is not  *)
(* a column; the constraints added before that stay in self.model.         *)
(***************************************************************************)
add_model_constraints(hs, ps, d) ==
    LET np == Len(ps)
        nh == Len(hs)
        head == number_players(np, nh) \o name_once(np, d)
                  \o salary_cap(hs, ps) \o position_quotas(hs, np)
        badP == FirstBad(Col(ps, "team"), d.pitcher_opp.columns, 1)
        opp  == [i \in 1..(badP - 1) |-> pitcher_not_facing(ps, nh, d, i)]
        games == Columns(d.pitcher_game)
        badG == FirstBad(games, d.hitter_game.columns, 1)
        spread == [k \in 1..(badG - 1) |-> game_spread(d, games[k])]
    IN  IF badP <= np
          THEN [cons |-> head \o opp, raised |-> "KeyError"]
        ELSE IF badG <= Len(games)
          THEN [cons |-> head \o opp \o spread, raised |-> "KeyError"]
        ELSE [cons |-> head \o opp \o spread \o team_cap(np, d),
              raised |-> "none"]

(***************************************************************************)
(* Flexible constraints, added to the copy of the base model.              *)
(***************************************************************************)
\* variant: the bound is variance itself, not 10 - variance
add_variance_constraint_raw(cons, binary_lineups_hitters_, binary_lineups_pitchers_, variance_) ==
    cons \o [k \in 1..Len(binary_lineups_pitchers_) |->
                Lin(binary_lineups_pitchers_[k], binary_lineups_hitters_[k],
                    NoTeamVars, "<=", variance_)]

\* variant: only the most recent lineup is constrained
add_variance_constraint_last(cons, binary_lineups_hitters_, binary_lineups_pitchers_, variance_) ==
    cons \o [k \in 1..(IF Len(binary_lineups_pitchers_) > 0 THEN 1 ELSE 0) |->
                Lin(binary_lineups_pitchers_[Len(binary_lineups_pitchers_)],
                    binary_lineups_hitters_[Len(binary_lineups_hitters_)],
                    NoTeamVars, "<=", 10 - variance_)]

\* add_variance_constraint (optimizer_mlb.py 225-247)
add_variance_constraint(cons, binary_lineups_hitters_, binary_lineups_pitchers_, variance_) ==
    cons \o [k \in 1..Len(binary_lineups_pitchers_) |->
                Lin(binary_lineups_pitchers_[k], binary_lineups_hitters_[k],
                    NoTeamVars, "<=", 10 - variance_)]

\* variant: no team has to be stacked
add_autostack_constraint_none(cons, np, nh, d, stack_num_) ==
    LET teams == Columns(d.hitter_team)
    IN  cons
        \o [t \in 1..Len(teams) |->
              Lin(Zeros(np), Loc(d.hitter_team, teams[t]),
                  [x \in {teams[t]} |-> 0 - stack_num_], ">=", 0)]
        \o << Lin(Zeros(np), Zeros(nh),
                  [x \in d.hitter_team.columns |-> 1], ">=", 0) >>

\* add_autostack_constraint (optimizer_mlb.py 272-289)
add_autostack_constraint(cons, np, nh, d, stack_num_) ==
    LET teams == Columns(d.hitter_team)
    IN  cons
        \o [t \in 1..Len(teams) |->
              Lin(Zeros(np), Loc(d.hitter_team, teams[t]),
                  [x \in {teams[t]} |-> 0 - stack_num_], ">=", 0)]
        \o << Lin(Zeros(np), Zeros(nh),
                  [x \in d.hitter_team.columns |-> 1], ">=", 1) >>

\* variant: the team has to supply no hitter
add_teamstack_constraint_none(cons, np, d, team, stack_num_) ==
    cons \o << Lin(Zeros(np), Loc(d.hitter_team, team), NoTeamVars,
                   ">=", 0) >>

\* add_teamstack_constraint (optimizer_mlb.py 315-325); defined when team
\* is a hitter_team column
add_teamstack_constraint(cons, np, d, team, stack_num_) ==
    cons \o << Lin(Zeros(np), Loc(d.hitter_team, team), NoTeamVars,
                   ">=", stack_num_) >>

(***************************************************************************)
(* solve_model: the objective and the solver's answer.                     *)
(***************************************************************************)
\* variant: the pitchers' projections are left out of the objective
Objective_hitters(hs, ps) ==
    [p |-> Terms([i \in 1..Len(ps) |-> 0]),
     h |-> Terms([i \in 1..Len(hs) |-> hs[i].ppg_projection])]

Objective(hs, ps) ==
    [p |-> Terms([i \in 1..Len(ps) |-> ps[i].ppg_projection]),
     h |-> Terms([i \in 1..Len(hs) |-> hs[i].ppg_projection])]

\* the assignments (P, H) of pitchers_var, hitters_var that some assignment
\* of team_stack_var extends to a solution of every constraint in cons.
\* Constraints over the pitcher variables alone and over the hitter
\* variables alone are applied first, each to its own variables.
\* the constraints by the variables they mention: pitcher variables only,
\* hitter variables only, team variables, or pitcher and hitter variables;
\* within the first two, equalities (tried first) and inequalities
Scope(cons) ==
    LET K == 1..Len(cons)
        KP == {k \in K : cons[k].h = {} /\ cons[k].t = {}}
        KH == {k \in K \ KP : cons[k].p = {} /\ cons[k].t = {}}
        KT == {k \in K : cons[k].t # {}}
    IN  [KPe |-> {k \in KP : cons[k].op = "=="},
         KPn |-> {k \in KP : cons[k].op # "=="},
         KHe |-> {k \in KH : cons[k].op = "=="},
         KHn |-> {k \in KH : cons[k].op # "=="},
         KT |-> KT, KM |-> K \ (KP \cup KH \cup KT)]

\* presolve: <<V, r>> for every expression "sum of the variables V == r"
Blocks(exprs) ==
    UNION { { << tm[2], e.rhs >> : tm \in {y \in e.terms : y[1] = 1} } :
              e \in {x \in exprs : x.op = "==" /\ Cardinality(x.terms) = 1} }

RECURSIVE Pick(_, _)
\* blocks over pairwise disjoint sets of variables, smallest sets first
Pick(blocks, used) ==
    LET avail == {b \in blocks : b[1] \cap used = {}}
    IN  IF avail = {} THEN {}
        ELSE LET b == CHOOSE x \in avail :
                        \A y \in avail : Cardinality(x[1]) <= Cardinality(y[1])
             IN  {b} \cup Pick(avail \ {b}, used \cup b[1])

RECURSIVE Product(_)
\* the ways to set exactly r variables of every picked block
Product(picked) ==
    IF picked = {} THEN {{}}
    ELSE LET b == CHOOSE x \in picked : TRUE
         IN  UNION { { q \cup rest :
                         q \in {S \in SUBSET b[1] : Cardinality(S) = b[2]} } :
                     rest \in Product(picked \ {b}) }

\* every assignment of the variables 1..n that satisfies the picked blocks
\* (the variables outside the blocks are free)
Cover(picked, n) ==
    UNION { { c \cup F : F \in SUBSET ((1..n) \ UNION {b[1] : b \in picked}) } :
              c \in Product(picked) }

CoverOf(exprs, n) == UNION { Cover(pk, n) : pk \in {Pick(Blocks(exprs), {})} }

\* the assignments of the pitcher variables that satisfy the constraints
\* over pitcher variables alone, and the same for the hitter variables
Candidates(cons, sc, np, nh) ==
    [PC |-> {Q : Q \in
               {P \in CoverOf({[terms |-> cons[k].p, op |-> cons[k].op,
                                rhs |-> cons[k].rhs] : k \in sc.KPe}, np) :
                  /\ \A k \in sc.KPe : Holds(cons[k], P, {}, {})
                  /\ \A k \in sc.KPn : Holds(cons[k], P, {}, {})}},
     HC |-> {Q : Q \in
               {H \in CoverOf({[terms |-> cons[k].h, op |-> cons[k].op,
                                rhs |-> cons[k].rhs] : k \in sc.KHe}, nh) :
                  /\ \A k \in sc.KHe : Holds(cons[k], {}, H, {})
                  /\ \A k \in sc.KHn : Holds(cons[k], {}, H, {})}}]

Joint(cons, sc, cand, teamvars) ==
    {b : b \in {a \in cand.PC \X cand.HC :
        /\ \A k \in sc.KM : Holds(cons[k], a[1], a[2], {})
        /\ \E T \in SUBSET teamvars :
              \A k \in sc.KT : Holds(cons[k], a[1], a[2], T)}}

FeasibleOf(cons, np, nh, teamvars) ==
    UNION { UNION { Joint(cons, sc, cand, teamvars) :
                      cand \in {Candidates(cons, sc, np, nh)} } :
              sc \in {Scope(cons)} }

Feasible(cons, np, nh, teamvars) ==
    UNION { FeasibleOf(c, np, nh, teamvars) : c \in {cons} }

RECURSIVE MaxOf(_)
MaxOf(S) == LET x == CHOOSE y \in S : TRUE
            IN  IF S = {x} THEN x
                ELSE LET m == MaxOf(S \ {x}) IN IF x > m THEN x ELSE m

Value(obj, a) == Dot(obj.p, a[1]) + Dot(obj.h, a[2])

BestOf(feas, obj) ==
    UNION { {a \in feas : Value(obj, a) = best} :
              best \in {MaxOf({Value(obj, a) : a \in feas})} }

Optimal(feas, obj) == UNION { BestOf(feas, o) : o \in {obj} }

\* solver.Solve(model) after model.Maximize(...)
Solve(cons, hs, ps, teamvars) ==
    CHOOSE r \in
      { IF feas = {} THEN [status |-> "INFEASIBLE", sols |-> {}]
        ELSE [status |-> "OPTIMAL", sols |-> Optimal(feas, Objective(hs, ps))] :
        feas \in {Feasible(cons, Len(ps), Len(hs), teamvars)} } : TRUE

(***************************************************************************)
(* output_lineup: the index lists and the binary vectors of a solution.    *)
(***************************************************************************)
RECURSIVE Indexes(_, _, _)
\* the "index" column of the selected rows, in row order
Indexes(rows, S, from) ==
    IF from > Len(rows) THEN << >>
    ELSE (IF from \in S THEN << rows[from].index >> ELSE << >>)
         \o Indexes(rows, S, from + 1)

\* variant: 0 for a selected row, 1 for the others
Binary_inverted(n, S) == [j \in 1..n |-> IF j \in S THEN 0 ELSE 1]

Binary(n, S) == [j \in 1..n |-> IF j \in S THEN 1 ELSE 0]

\* variant: the loop over the pitcher variables starts at the second row
output_lineup_skipfirst(hs, ps, sol) ==
    [pitcher_indexes |-> Indexes(ps, sol[1], 2),
     hitter_indexes  |-> Indexes(hs, sol[2], 1),
     binary_pitchers |-> Binary(Len(ps), sol[1]),
     binary_hitters  |-> Binary(Len(hs), sol[2])]

output_lineup(hs, ps, sol) ==
    [pitcher_indexes |-> Indexes(ps, sol[1], 1),
     hitter_indexes  |-> Indexes(hs, sol[2], 1),
     binary_pitchers |-> Binary(Len(ps), sol[1]),
     binary_hitters  |-> Binary(Len(hs), sol[2])]

(***************************************************************************)
(* _check_create_lineup_args: the assertions on the argument values.       *)
(***************************************************************************)
None == "None"

\* variant: the range of variance is not asserted
check_create_lineup_args_norange(auto_stack_, team_stack_, stack_num_, variance_) ==
    /\ ~auto_stack_ \/ team_stack_ = None
    /\ stack_num_ >= 0 /\ stack_num_ <= 5

check_create_lineup_args(auto_stack_, team_stack_, stack_num_, variance_) ==
    /\ variance_ >= 0 /\ variance_ <= 10
    /\ ~auto_stack_ \/ team_stack_ = None
    /\ stack_num_ >= 0 /\ stack_num_ <= 5

\* variant: the flexible constraints are added to self.model itself
create_lineup_nocopy(hs, ps, has_model_, model_, blp, blh, auto_stack_, team_stack_, stack_num_, variance_) ==
    LET d == create_dummy_dfs(hs, ps)
        np == Len(ps)
        nh == Len(hs)
        base == IF has_model_ THEN [cons |-> model_, raised |-> "none"]
                ELSE add_model_constraints(hs, ps, d)
        m1 == add_variance_constraint(base.cons, blh, blp, variance_)
        m2 == IF auto_stack_
                THEN add_autostack_constraint(m1, np, nh, d, stack_num_) ELSE m1
        m3 == IF team_stack_ # None
                THEN add_teamstack_constraint(m2, np, d, team_stack_, stack_num_)
                ELSE m2
        teamvars == IF auto_stack_ THEN d.hitter_team.columns ELSE {}
        answer == Solve(m3, hs, ps, teamvars)
    IN  IF ~check_create_lineup_args(auto_stack_, team_stack_, stack_num_, variance_)
          THEN [raised |-> "AssertionError", has_model |-> has_model_,
                model |-> model_, status |-> "none", sols |-> {}]
        ELSE IF base.raised # "none"
          THEN [raised |-> base.raised, has_model |-> TRUE,
                model |-> base.cons, status |-> "none", sols |-> {}]
        ELSE IF team_stack_ # None /\ team_stack_ \notin d.hitter_team.columns
          THEN [raised |-> "KeyError", has_model |-> TRUE,
                model |-> base.cons, status |-> "none", sols |-> {}]
        ELSE IF answer.status # "OPTIMAL"
          \* solve_model returns None and output_lineup calls None.Value
          THEN [raised |-> "AttributeError", has_model |-> TRUE,
                model |-> m3, status |-> answer.status, sols |-> {}]
        ELSE [raised |-> "none", has_model |-> TRUE, model |-> m3,
              status |-> "OPTIMAL", sols |-> answer.sols]

(***************************************************************************)
(* create_lineup up to the solve: what is raised, what self.model holds    *)
(* afterwards, and the solver's answer.                                    *)
(***************************************************************************)
create_lineup(hs, ps, has_model_, model_, blp, blh, auto_stack_, team_stack_, stack_num_, variance_) ==
    LET d == create_dummy_dfs(hs, ps)
        np == Len(ps)
        nh == Len(hs)
        base == IF has_model_ THEN [cons |-> model_, raised |-> "none"]
                ELSE add_model_constraints(hs, ps, d)
        m1 == add_variance_constraint(base.cons, blh, blp, variance_)
        m2 == IF auto_stack_
                THEN add_autostack_constraint(m1, np, nh, d, stack_num_) ELSE m1
        m3 == IF team_stack_ # None
                THEN add_teamstack_constraint(m2, np, d, team_stack_, stack_num_)
                ELSE m2
        teamvars == IF auto_stack_ THEN d.hitter_team.columns ELSE {}
        answer == Solve(m3, hs, ps, teamvars)
    IN  IF ~check_create_lineup_args(auto_stack_, team_stack_, stack_num_, variance_)
          THEN [raised |-> "AssertionError", has_model |-> has_model_,
                model |-> model_, status |-> "none", sols |-> {}]
        ELSE IF base.raised # "none"
          THEN [raised |-> base.raised, has_model |-> TRUE,
                model |-> base.cons, status |-> "none", sols |-> {}]
        ELSE IF team_stack_ # None /\ team_stack_ \notin d.hitter_team.columns
          THEN [raised |-> "KeyError", has_model |-> TRUE,
                model |-> base.cons, status |-> "none", sols |-> {}]
        ELSE IF answer.status # "OPTIMAL"
          \* solve_model returns None and output_lineup calls None.Value
          THEN [raised |-> "AttributeError", has_model |-> TRUE,
                model |-> base.cons, status |-> answer.status, sols |-> {}]
        ELSE [raised |-> "none", has_model |-> TRUE, model |-> base.cons,
              status |-> "OPTIMAL", sols |-> answer.sols]

(***************************************************************************)
(* Rosters.  Teams A, B play game G1 and C, D play game G2; team E plays   *)
(* (against F) in G3, a game none of whose pitchers is in the table.       *)
(* "zed" is a dual-eligible hitter and so has two rows; "h13" is a hitter  *)
(* whose position is none of the six roster positions.                     *)
(***************************************************************************)
Pitchers1 == reset_index(<<
    Row("ace", "SP", 10000, 250, "A", "B", "G1"),
    Row("bob", "SP",  7000, 600, "B", "A", "G1"),
    Row("cy",  "SP",  7000, 100, "C", "D", "G2") >>)

Hitters1 == reset_index(<<
    Row("h01", "C",  4000,  90, "A", "B", "G1"),
    Row("h02", "1B", 4000,  90, "A", "B", "G1"),
    Row("h03", "2B", 3500, 100, "A", "B", "G1"),
    Row("h04", "3B", 4000,  90, "A", "B", "G1"),
    Row("h05", "SS", 3500,  80, "A", "B", "G1"),
    Row("h06", "OF", 4500, 100, "A", "B", "G1"),
    Row("h07", "OF", 4500, 220, "B", "A", "G1"),
    Row("h08", "OF", 4500, 220, "B", "A", "G1"),
    Row("h09", "OF", 3500,  70, "C", "D", "G2"),
    Row("h10", "OF", 9000, 260, "C", "D", "G2"),
    Row("h11", "OF", 5500, 200, "C", "D", "G2"),
    Row("h12", "C",  9000, 250, "D", "C", "G2"),
    Row("h13", "DH", 3500, 150, "C", "D", "G2"),
    Row("zed", "2B", 3500,  95, "E", "F", "G3"),
    Row("zed", "OF", 3500,  95, "E", "F", "G3") >>)

\* four pitchers and sixteen hitter rows: room for two disjoint lineups
PitchersWide == reset_index(<<
    Row("ace", "SP", 9000, 210, "A", "B", "G1"),
    Row("bob", "SP", 9000, 200, "B", "A", "G1"),
    Row("cy",  "SP", 9000, 200, "C", "D", "G2"),
    Row("dan", "SP", 9000, 200, "D", "C", "G2") >>)

HittersWide == reset_index(<<
    Row("h01", "C",  4000, 90, "A", "B", "G1"),
    Row("h02", "1B", 4000, 90, "A", "B", "G1"),
    Row("h03", "3B", 4000, 90, "A", "B", "G1"),
    Row("h04", "OF", 4000, 90, "A", "B", "G1"),
    Row("h05", "C",  4000, 90, "B", "A", "G1"),
    Row("h06", "1B", 4000, 90, "B", "A", "G1"),
    Row("h07", "3B", 4000, 90, "B", "A", "G1"),
    Row("h08", "OF", 4000, 90, "B", "A", "G1"),
    Row("h09", "OF", 4000, 90, "C", "D", "G2"),
    Row("h10", "OF", 4000, 90, "C", "D", "G2"),
    Row("h11", "SS", 4000, 90, "C", "D", "G2"),
    Row("h12", "OF", 4000, 90, "D", "C", "G2"),
    Row("h13", "OF", 4000, 90, "D", "C", "G2"),
    Row("h14", "2B", 4000, 90, "D", "C", "G2"),
    Row("zed", "2B", 4000, 90, "E", "F", "G3"),
    Row("zed", "SS", 4000, 90, "E", "F", "G3") >>)

\* the first roster without its only team-D hitter: no hitter faces "cy"
HittersNoD == reset_index(SelectSeq(Hitters1, LAMBDA r : r.team # "D"))

\* the first roster without the hitters of game G2: the game of pitcher
\* "cy" has pitcher rows but no hitter rows
HittersNoG2 == reset_index(SelectSeq(Hitters1, LAMBDA r : r.Game # "G2"))

\* the first roster without "h03": one combination of 2 pitchers and 8
\* hitters satisfies the base constraints
HittersOne == reset_index(SelectSeq(Hitters1, LAMBDA r : r.Name # "h03"))

\* two pitchers and eleven hitters: the best lineup takes 3 hitters of team
\* A, 3 of team C and 2 of team E; the only other lineup takes 4 of team A
PitchersStack == reset_index(<<
    Row("ace", "SP", 9000, 200, "A", "B", "G1"),
    Row("cy",  "SP", 9000, 200, "C", "D", "G2") >>)

HittersStack == reset_index(<<
    Row("h01", "C",  4000,  90, "A", "B", "G1"),
    Row("h02", "1B", 4000,  90, "A", "B", "G1"),
    Row("h03", "2B", 4000,  90, "A", "B", "G1"),
    Row("h04", "3B", 4000,  90, "A", "B", "G1"),
    Row("h05", "SS", 4000,  90, "C", "D", "G2"),
    Row("h06", "OF", 4000,  90, "C", "D", "G2"),
    Row("h07", "OF", 4000,  90, "C", "D", "G2"),
    Row("h08", "OF", 4000,  90, "E", "F", "G3"),
    Row("h09", "1B", 4000, 150, "E", "F", "G3"),
    Row("h10", "OF", 4000,  90, "B", "A", "G1"),
    Row("h11", "OF", 4000,  90, "D", "C", "G2") >>)

Rosters == { [hitters |-> Hitters1,     pitchers |-> Pitchers1],
             [hitters |-> HittersWide,  pitchers |-> PitchersWide],
             [hitters |-> HittersNoD,   pitchers |-> Pitchers1],
             [hitters |-> HittersNoG2,  pitchers |-> Pitchers1],
             [hitters |-> HittersOne,   pitchers |-> Pitchers1],
             [hitters |-> HittersStack, pitchers |-> PitchersStack] }

\* argument values explored: run_lineups(num, auto_stack, team_stack,
\* stack_num, variance) is called with one of these argument records
Args(auto, ts, sn, v) ==
    [auto_stack |-> auto, team_stack |-> ts, stack_num |-> sn, variance |-> v]

Calls == { Args(FALSE, None, 4, 0),  Args(FALSE, None, 4, 2),
           Args(FALSE, None, 4, 10), Args(FALSE, None, 4, 11),
           Args(TRUE,  None, 4, 2),  Args(FALSE, "A",  4, 0),
           Args(TRUE,  "A",  4, 0),  Args(TRUE,  None, 6, 0),
           Args(FALSE, "Q",  4, 0) }

(***************************************************************************)
(* State of one OptimizerMLB object and of the run_lineups call in         *)
(* progress.                                                               *)
(***************************************************************************)
VARIABLES
    hitters, pitchers,          \* self.hitters, self.pitchers
    has_model, model,           \* hasattr(self, "model"); its constraints
    has_lists,                  \* the four session lists exist
    pitcher_indexes, hitter_indexes,
    binary_lineups_pitchers, binary_lineups_hitters,
    pc,                         \* "idle", "running", "raised"
    call,                       \* arguments of the run_lineups call
    i,                          \* loop counter of run_lineups
    raised,                     \* exception that ended the session
    status,                     \* status of the last solve
    csv_file,                   \* rows of the file csv_output wrote last
    data,                       \* entry point: the two tables read from csv
    tables,                     \* entry point: result of transform_data
    main_pc                     \* entry point: position in main.py

vars == << hitters, pitchers, has_model, model, has_lists, pitcher_indexes,
           hitter_indexes, binary_lineups_pitchers, binary_lineups_hitters,
           pc, call, i, raised, status, csv_file, data, tables, main_pc >>

NoCall == [num_lineups |-> 0, auto_stack |-> FALSE, team_stack |-> None,
           stack_num |-> 4, variance |-> 0]

\* the values of the entry point's locals when no script is running
NoData == [dk |-> << >>, proj |-> << >>]
NoTables == [hitters |-> << >>, pitchers |-> << >>]

\* OptimizerMLB.__init__, called with the tables and the dummies of a roster
Init ==
    /\ \E r \in Rosters : hitters = r.hitters /\ pitchers = r.pitchers
    /\ has_model = FALSE /\ model = << >>
    /\ has_lists = FALSE
    /\ pitcher_indexes = << >> /\ hitter_indexes = << >>
    /\ binary_lineups_pitchers = << >> /\ binary_lineups_hitters = << >>
    /\ pc = "idle" /\ call = NoCall /\ i = 0
    /\ raised = "none" /\ status = "none"
    /\ csv_file = << >>
    /\ data = NoData /\ tables = NoTables /\ main_pc = "none"

\* variant: the session lists are created anew by every call
RunLineups_fresh(num, auto, ts, sn, v) ==
    /\ pc = "idle"
    /\ Len(pitcher_indexes) + num <= MaxLineups
    /\ call' = [num_lineups |-> num, auto_stack |-> auto, team_stack |-> ts,
                stack_num |-> sn, variance |-> v]
    /\ has_lists' = TRUE
    /\ i' = 0
    /\ pc' = "running"
    /\ pitcher_indexes' = << >> /\ hitter_indexes' = << >>
    /\ binary_lineups_pitchers' = << >> /\ binary_lineups_hitters' = << >>
    /\ UNCHANGED << hitters, pitchers, has_model, model, raised, status >>
    /\ UNCHANGED << csv_file, data, tables, main_pc >>

\* run_lineups is called: the session lists are created if absent
RunLineups(num, auto, ts, sn, v) ==
    /\ pc = "idle"
    /\ Len(pitcher_indexes) + num <= MaxLineups
    /\ call' = [num_lineups |-> num, auto_stack |-> auto, team_stack |-> ts,
                stack_num |-> sn, variance |-> v]
    /\ has_lists' = TRUE
    /\ i' = 0
    /\ pc' = "running"
    /\ UNCHANGED << hitters, pitchers, has_model, model, pitcher_indexes,
                    hitter_indexes, binary_lineups_pitchers,
                    binary_lineups_hitters, raised, status >>
    /\ UNCHANGED << csv_file, data, tables, main_pc >>

\* variant: a failed attempt stores an empty lineup and the loop goes on
Iterate_stores_failure ==
    /\ pc = "running" /\ i < call.num_lineups
    /\ \E r \in {create_lineup(hitters, pitchers, has_model, model,
                              binary_lineups_pitchers, binary_lineups_hitters,
                              call.auto_stack, call.team_stack,
                              call.stack_num, call.variance)} :
           /\ has_model' = r.has_model
           /\ model' = r.model
           /\ status' = r.status
           /\ raised' = IF r.status \in {"INFEASIBLE"} THEN "none" ELSE r.raised
           /\ IF r.raised # "none" /\ r.status \notin {"INFEASIBLE"}
                THEN /\ pc' = "raised"
                     /\ UNCHANGED << pitcher_indexes, hitter_indexes,
                                     binary_lineups_pitchers,
                                     binary_lineups_hitters, i >>
                ELSE \E sol \in (IF r.raised # "none" THEN {<< {}, {} >>}
                                 ELSE r.sols) :
                       LET lineup == output_lineup(hitters, pitchers, sol)
                       IN  /\ pitcher_indexes' =
                                Append(pitcher_indexes, lineup.pitcher_indexes)
                           /\ hitter_indexes' =
                                Append(hitter_indexes, lineup.hitter_indexes)
                           /\ binary_lineups_pitchers' =
                                Append(binary_lineups_pitchers, lineup.binary_pitchers)
                           /\ binary_lineups_hitters' =
                                Append(binary_lineups_hitters, lineup.binary_hitters)
                           /\ i' = i + 1
                           /\ pc' = "running"
    /\ UNCHANGED << hitters, pitchers, has_lists, call >>
    /\ UNCHANGED << csv_file, data, tables, main_pc >>

\* one iteration of the loop: create_lineup, then the four appends
Iterate ==
    /\ pc = "running" /\ i < call.num_lineups
    /\ \E r \in {create_lineup(hitters, pitchers, has_model, model,
                              binary_lineups_pitchers, binary_lineups_hitters,
                              call.auto_stack, call.team_stack,
                              call.stack_num, call.variance)} :
           /\ has_model' = r.has_model
           /\ model' = r.model
           /\ status' = r.status
           /\ raised' = r.raised
           /\ IF r.raised # "none"
                THEN /\ pc' = "raised"
                     /\ UNCHANGED << pitcher_indexes, hitter_indexes,
                                     binary_lineups_pitchers,
                                     binary_lineups_hitters, i >>
                ELSE \E sol \in r.sols :
                       LET lineup == output_lineup(hitters, pitchers, sol)
                       IN  /\ pitcher_indexes' =
                                Append(pitcher_indexes, lineup.pitcher_indexes)
                           /\ hitter_indexes' =
                                Append(hitter_indexes, lineup.hitter_indexes)
                           /\ binary_lineups_pitchers' =
                                Append(binary_lineups_pitchers, lineup.binary_pitchers)
                           /\ binary_lineups_hitters' =
                                Append(binary_lineups_hitters, lineup.binary_hitters)
                           /\ i' = i + 1
                           /\ pc' = "running"
    /\ UNCHANGED << hitters, pitchers, has_lists, call >>
    /\ UNCHANGED << csv_file, data, tables, main_pc >>

\* the loop is exhausted: "COMPLETE"; the call's arguments and counter
\* are locals and end with it
Complete ==
    /\ pc = "running" /\ i = call.num_lineups
    /\ pc' = "idle" /\ call' = NoCall /\ i' = 0
    /\ UNCHANGED << hitters, pitchers, has_model, model, has_lists,
                    pitcher_indexes, hitter_indexes, binary_lineups_pitchers,
                    binary_lineups_hitters, raised, status >>
    /\ UNCHANGED << csv_file, data, tables, main_pc >>

Next ==
    \/ \E num \in 0..MaxNum, c \in Calls :
          RunLineups(num, c.auto_stack, c.team_stack, c.stack_num, c.variance)
    \/ Iterate
    \/ Complete

Spec == Init /\ [][Next]_vars

(***************************************************************************)
(* The lineups of the session, read back from the session lists.           *)
(***************************************************************************)
NumLineups == Len(binary_lineups_hitters)

\* the pitcher rows and the hitter rows lineup k selects
PSel(k) == {j \in 1..Len(pitchers) : binary_lineups_pitchers[k][j] = 1}
HSel(k) == {j \in 1..Len(hitters) : binary_lineups_hitters[k][j] = 1}

RECURSIVE SumOver(_, _)
SumOver(S, f) ==
    IF S = {} THEN 0
    ELSE LET x == CHOOSE y \in S : TRUE IN f[x] + SumOver(S \ {x}, f)

LineupSalary(k) ==
    SumOver(PSel(k), [j \in 1..Len(pitchers) |-> pitchers[j].Salary])
    + SumOver(HSel(k), [j \in 1..Len(hitters) |-> hitters[j].Salary])

Flagged(k, pos) == {j \in HSel(k) : position_bool(hitters[j], pos) = 1}

AllGames == {hitters[j].Game : j \in 1..Len(hitters)}
              \cup {pitchers[j].Game : j \in 1..Len(pitchers)}
AllTeams == {hitters[j].team : j \in 1..Len(hitters)}

InGame(k, g) == Cardinality({j \in PSel(k) : pitchers[j].Game = g})
                + Cardinality({j \in HSel(k) : hitters[j].Game = g})
GamesOf(k) == {pitchers[j].Game : j \in PSel(k)}
                \cup {hitters[j].Game : j \in HSel(k)}
OnTeam(k, t) == Cardinality({j \in HSel(k) : hitters[j].team = t})

\* C1: every lineup returned after an OPTIMAL solve selects exactly 2
\* pitcher rows and exactly 8 hitter rows
C1_TwoPitchersEightHitters ==
    \A k \in 1..NumLineups :
        Cardinality(PSel(k)) = 2 /\ Cardinality(HSel(k)) = 8

\* a lineup was returned for a roster with more than 2 pitchers and more
\* than 8 hitters, after earlier lineups
C1_Witness ==
    /\ NumLineups >= 2 /\ Len(pitchers) > 2 /\ Len(hitters) > 8
    /\ Cardinality(PSel(NumLineups)) = 2

\* C2: the salaries of the 2 pitcher rows and 8 hitter rows of every
\* returned lineup sum to at most 50000
C2_SalaryWithinCap ==
    \A k \in 1..NumLineups : LineupSalary(k) <= 50000

\* a returned lineup that spends the cap to within 1000
C2_Witness ==
    \E k \in 1..NumLineups : LineupSalary(k) > 49000 /\ LineupSalary(k) <= 50000

\* C3: the hitter rows of every returned lineup contain exactly 1 row
\* flagged C, 1B, 2B, 3B and SS each, and exactly 3 flagged OF
C3_PositionQuotas ==
    \A k \in 1..NumLineups :
        /\ \A pos \in {"C", "1B", "2B", "3B", "SS"} :
               Cardinality(Flagged(k, pos)) = 1
        /\ Cardinality(Flagged(k, "OF")) = 3

\* a lineup was returned from a roster that has a hitter flagged for none
\* of the six positions and more than 3 outfielders
C3_Witness ==
    /\ NumLineups >= 1
    /\ \E j \in 1..Len(hitters) : hitters[j].Position = "DH"
    /\ Cardinality({j \in 1..Len(hitters) : hitters[j].Position = "OF"}) > 3
    /\ Cardinality(Flagged(1, "OF")) = 3

\* C4: no two selected hitter rows of a returned lineup carry the same
\* player name
C4_NameOnce ==
    \A k \in 1..NumLineups :
        \A a, b \in HSel(k) : hitters[a].Name = hitters[b].Name => a = b

\* a returned lineup holds one of the two rows of a dual-eligible player
C4_Witness ==
    \E k \in 1..NumLineups :
        \E a \in HSel(k) :
            \E b \in 1..Len(hitters) :
                b # a /\ hitters[b].Name = hitters[a].Name

\* every choice of 8 hitter rows
EightHitters == {H \in SUBSET (1..Len(hitters)) : Cardinality(H) = 8}

\* the exclusion constraint of pitcher q, over the pitchers P, allows the
\* hitters H
ExclusionAllows(q, P, H) ==
    \A d \in {create_dummy_dfs(hitters, pitchers)} :
        pitchers[q].team \in d.pitcher_opp.columns =>
            Holds(pitcher_not_facing(pitchers, Len(hitters), d, q),
                  P, H, NoTeamVars)

\* C5: in every returned lineup no selected hitter row has as opponent the
\* team of a selected pitcher; and the exclusion constraint of a pitcher
\* that is not selected allows every choice of 8 hitters (evaluated for the
\* first lineup of a session, once its call has ended)
C5_PitcherNotFacingHitters ==
    /\ \A k \in 1..NumLineups :
           \A p \in PSel(k) : \A h \in HSel(k) :
               hitters[h].opp # pitchers[p].team
    /\ (pc = "idle" /\ NumLineups = 1) =>
           \A p \in (1..Len(pitchers)) \ PSel(1) :
               \A H \in EightHitters : ExclusionAllows(p, PSel(1), H)

\* a returned lineup leaves out hitters that face one of its pitchers and
\* keeps a hitter that faces a pitcher it did not select
C5_Witness ==
    /\ pc = "idle" /\ NumLineups = 1
    /\ \E p \in PSel(1) : \E h \in (1..Len(hitters)) \ HSel(1) :
           hitters[h].opp = pitchers[p].team
    /\ \E p \in (1..Len(pitchers)) \ PSel(1) : \E h \in HSel(1) :
           hitters[h].opp = pitchers[p].team

\* C6: in every returned lineup each game of the roster, also a game with
\* hitters but no pitcher row, holds at most 9 of the 10 selected rows, and
\* the lineup draws on at least 2 games
C6_GameSpread ==
    \A k \in 1..NumLineups :
        /\ \A g \in AllGames : InGame(k, g) <= 9
        /\ Cardinality(GamesOf(k)) >= 2

\* a returned lineup has a row of a game that has no pitcher row, from a
\* roster one of whose games could fill all 10 slots
C6_Witness ==
    \E k \in 1..NumLineups :
        /\ \E j \in HSel(k) :
               \A q \in 1..Len(pitchers) : pitchers[q].Game # hitters[j].Game
        /\ \E g \in AllGames :
               /\ Cardinality({q \in 1..Len(pitchers) : pitchers[q].Game = g}) >= 2
               /\ Cardinality({j \in 1..Len(hitters) : hitters[j].Game = g}) >= 8

\* C7: in every returned lineup each team has at most 5 selected hitter
\* rows, with or without a stacking constraint
C7_TeamCap ==
    \A k \in 1..NumLineups : \A t \in AllTeams : OnTeam(k, t) <= 5

\* a lineup returned under a stacking constraint, from a roster with a
\* team of more than 5 hitters, with 4 or 5 hitters of one team
C7_Witness ==
    /\ pc = "running" /\ i >= 1
    /\ call.auto_stack \/ call.team_stack # None
    /\ \E t \in AllTeams :
           Cardinality({j \in 1..Len(hitters) : hitters[j].team = t}) > 5
    /\ \E t \in AllTeams : OnTeam(NumLineups, t) \in {4, 5}

\* Hamming distance between lineups k and m of the lists bp, bh: the number
\* of positions at which the concatenated binary vectors differ
Hamming(bp, bh, k, m) ==
    Cardinality({j \in 1..Len(pitchers) : bp[k][j] # bp[m][j]})
    + Cardinality({j \in 1..Len(hitters) : bh[k][j] # bh[m][j]})

\* the names of the players of lineup k
PlayerNames(k) == {pitchers[j].Name : j \in PSel(k)}
                    \cup {hitters[j].Name : j \in HSel(k)}

\* C8: a lineup stored by a run_lineups call with variance v is at Hamming
\* distance at least v from every lineup stored before it, consecutive or
\* not; so in a session whose calls all use v every pair is at least v apart
C8_VarianceDistance ==
    [][ NumLineups' = NumLineups + 1 =>
            \A k \in 1..NumLineups :
                Hamming(binary_lineups_pitchers', binary_lineups_hitters',
                        k, NumLineups + 1) >= call.variance ]_vars

\* a call with positive variance has stored the third lineup of a session,
\* which differs from the first in some but not all of its rows
C8_Witness ==
    /\ pc = "running" /\ i >= 1 /\ call.variance >= 1 /\ NumLineups = 3
    /\ Hamming(binary_lineups_pitchers, binary_lineups_hitters, 1, 3)
           >= call.variance
    /\ Hamming(binary_lineups_pitchers, binary_lineups_hitters, 1, 3) < 20

\* C9: in a session whose lineups all come from one run_lineups call with
\* variance 10, no player, identified by name, is in two lineups
C9_NoSharedPlayer ==
    (pc = "running" /\ call.variance = 10 /\ NumLineups = i) =>
        \A k, m \in 1..NumLineups :
            k # m => PlayerNames(k) \cap PlayerNames(m) = {}

\* C10: with variance 0 the diversity constraints of any history exclude
\* nothing: the assignments the model allows, and among them those the
\* solve may return, are those of the base model alone (evaluated between
\* calls)
C10_VarianceZeroNoOp ==
    (pc = "idle" /\ has_model) =>
        \A F0 \in {Feasible(add_variance_constraint(model,
                               binary_lineups_hitters,
                               binary_lineups_pitchers, 0),
                            Len(pitchers), Len(hitters), {})} :
            \A F1 \in {Feasible(model, Len(pitchers), Len(hitters), {})} :
                /\ F0 = F1
                /\ F1 # {} =>
                     Optimal(F0, Objective(hitters, pitchers))
                       = Optimal(F1, Objective(hitters, pitchers))

\* between calls, the session holds the same lineup twice
C10_Witness ==
    /\ pc = "idle" /\ has_model /\ NumLineups >= 2
    /\ PSel(1) = PSel(2) /\ HSel(1) = HSel(2)

\* the lineups stored by the run_lineups call in progress (or ended by an
\* exception): the last i of the session
OfThisCall == (NumLineups - i + 1)..NumLineups

\* C11: with auto_stack = True and stack_num = s, every returned lineup has
\* a team with at least s selected hitter rows
C11_AutoStack ==
    (pc # "idle" /\ call.auto_stack) =>
        \A k \in OfThisCall :
            \E t \in AllTeams : OnTeam(k, t) >= call.stack_num

\* an auto_stack call returned a lineup with 4 hitters of one team from the
\* roster whose best unstacked lineup has at most 3 of any team
C11_Witness ==
    /\ pc = "running" /\ call.auto_stack /\ i >= 1
    /\ hitters = HittersStack
    /\ \E t \in AllTeams : OnTeam(NumLineups, t) >= call.stack_num

\* C12: with team_stack = T and stack_num = s, every returned lineup has at
\* least s selected hitter rows of team T
C12_TeamStack ==
    (pc # "idle" /\ call.team_stack # None) =>
        \A k \in OfThisCall : OnTeam(k, call.team_stack) >= call.stack_num

\* a team_stack call returned a lineup with 4 hitters of its team from the
\* roster whose best unstacked lineup has 3 of that team
C12_Witness ==
    /\ pc = "running" /\ call.team_stack = "A" /\ i >= 1
    /\ hitters = HittersStack
    /\ OnTeam(NumLineups, "A") >= call.stack_num

\* a configuration error: variance outside [0,10], stack_num outside [0,5],
\* or both stacking modes active
ConfigError(c) ==
    \/ c.variance < 0 \/ c.variance > 10
    \/ c.stack_num < 0 \/ c.stack_num > 5
    \/ c.auto_stack /\ c.team_stack # None

C14_UnknownTeamRejectedByValidation ==
    [][ (/\ pc = "running" /\ i < call.num_lineups
         /\ call.team_stack # None /\ call.team_stack \notin AllTeams) =>
            /\ pc' = "raised" /\ raised' = "AssertionError"
            /\ UNCHANGED << has_model, model >>
      ]_vars

\* the solver statuses other than OPTIMAL
NonOptimal == {"FEASIBLE", "INFEASIBLE", "MODEL_INVALID"}

\* C15: when the solve ends with a status other than OPTIMAL, create_lineup
\* hands its caller a non-success result, that is, it ends without an
\* exception
C15_NonOptimalIsReturned ==
    status \in NonOptimal => raised = "none"

\* C16: when a solve inside run_lineups ends with a status other than
\* OPTIMAL, run_lineups itself deals with the failure: the call stops or
\* goes on to the next lineup, and is not ended by an exception
C16_RunLineupsHandlesFailure ==
    status \in NonOptimal => pc \in {"running", "idle"}

\* list a is list b, or list b without its last entry when grown is TRUE
Extends(a, b, grown) ==
    /\ Len(b) = Len(a) + (IF grown THEN 1 ELSE 0)
    /\ \A k \in 1..Len(a) : b[k] = a[k]

\* C17: the session history is append-only: a successful solve in
\* run_lineups adds exactly one entry at the end of each of the four lists,
\* and no step changes or removes an entry already stored
C17_AppendOnly ==
    [][ \A grown \in {i' = i + 1} :
            /\ Extends(pitcher_indexes, pitcher_indexes', grown)
            /\ Extends(hitter_indexes, hitter_indexes', grown)
            /\ Extends(binary_lineups_pitchers, binary_lineups_pitchers', grown)
            /\ Extends(binary_lineups_hitters, binary_lineups_hitters', grown)
      ]_vars

\* a later run_lineups call has added the third entry to a history whose
\* first two entries differ
C17_Witness ==
    /\ pc = "running" /\ i = 1 /\ NumLineups = 3
    /\ hitter_indexes[1] # hitter_indexes[2]

\* what add_model_constraints builds for the roster of the session
BaseModel == add_model_constraints(hitters, pitchers,
                                   create_dummy_dfs(hitters, pitchers)).cons

\* C18: the base model is built on the first create_lineup call and holds,
\* after any sequence of calls, exactly the base constraints: the variance
\* and stacking constraints of a call never stay in it
C18_BaseModelKept ==
    IF has_model THEN model = BaseModel
    ELSE model = << >> /\ NumLineups = 0

\* a call with auto_stack and variance 2 has returned a lineup after an
\* earlier lineup of the session
C18_Witness ==
    /\ pc = "running" /\ i >= 1 /\ NumLineups >= 2
    /\ call.auto_stack /\ call.variance >= 1
    /\ has_model /\ model = BaseModel

\* the entries of a list
Range(seq) == {seq[k] : k \in 1..Len(seq)}

\* C19: for every returned lineup the binary vectors have one 0/1 entry per
\* roster row (n_p and n_h entries), and the index lists have exactly 2 and
\* 8 entries, which are the "index" values of the rows whose entry is 1
C19_OutputLineup ==
    \A k \in 1..NumLineups :
        /\ Len(binary_lineups_pitchers[k]) = Len(pitchers)
        /\ Len(binary_lineups_hitters[k]) = Len(hitters)
        /\ Range(binary_lineups_pitchers[k]) \subseteq {0, 1}
        /\ Range(binary_lineups_hitters[k]) \subseteq {0, 1}
        /\ Len(pitcher_indexes[k]) = 2
        /\ Len(hitter_indexes[k]) = 8
        /\ Range(pitcher_indexes[k]) = {pitchers[j].index : j \in PSel(k)}
        /\ Range(hitter_indexes[k]) = {hitters[j].index : j \in HSel(k)}
        /\ Cardinality(Range(pitcher_indexes[k])) = 2
        /\ Cardinality(Range(hitter_indexes[k])) = 8

\* a returned lineup whose binary vectors hold zeros as well as ones and
\* whose index lists do not start at row 0
C19_Witness ==
    \E k \in 1..NumLineups :
        /\ Range(binary_lineups_pitchers[k]) = {0, 1}
        /\ Range(binary_lineups_hitters[k]) = {0, 1}
        /\ pitcher_indexes[k][1] > 0 /\ hitter_indexes[k][1] > 0

\* the combinations of 2 pitchers and 8 hitters that satisfy all base
\* constraints of the roster
BaseFeasible == Feasible(BaseModel, Len(pitchers), Len(hitters), {})

\* C20: on a roster with exactly one combination that satisfies the base
\* constraints, the first solve of a session returns that combination, and
\* a later solve with variance >= 1 ends as INFEASIBLE and adds no lineup
C20_SingleCombination ==
    [][ (/\ pc = "running" /\ i < call.num_lineups
         /\ ~ConfigError(call)
         /\ call.team_stack = None \/ call.team_stack \in AllTeams
         /\ NumLineups = 0 \/ call.variance >= 1) =>
            \A F \in {BaseFeasible} :
                Cardinality(F) = 1 =>
                    IF NumLineups >= 1
                      THEN /\ status' = "INFEASIBLE"
                           /\ NumLineups' = NumLineups
                    ELSE (~call.auto_stack /\ call.team_stack = None) =>
                           \A f \in F :
                               /\ status' = "OPTIMAL"
                               /\ binary_lineups_pitchers'
                                    = << Binary(Len(pitchers), f[1]) >>
                               /\ binary_lineups_hitters'
                                    = << Binary(Len(hitters), f[2]) >>
      ]_vars

\* on a roster with one combination, a solve with variance >= 1 after the
\* first lineup has ended as INFEASIBLE
C20_Witness ==
    /\ hitters = HittersOne
    /\ Cardinality(BaseFeasible) = 1
    /\ NumLineups = 1 /\ call.variance >= 1 /\ status = "INFEASIBLE"

\* the rows a binary vector selects
SelOf(b) == {j \in 1..Len(b) : b[j] = 1}

\* total projected points of the pitcher rows P and the hitter rows H
Points(P, H) ==
    SumOver(P, [j \in 1..Len(pitchers) |-> pitchers[j].ppg_projection])
    + SumOver(H, [j \in 1..Len(hitters) |-> hitters[j].ppg_projection])

\* the constraints of the create_lineup call in progress: the base
\* constraints, then the flexible constraints its arguments ask for
CallConstraints ==
    LET d == create_dummy_dfs(hitters, pitchers)
        m1 == add_variance_constraint(BaseModel, binary_lineups_hitters,
                                      binary_lineups_pitchers, call.variance)
        m2 == IF call.auto_stack
                THEN add_autostack_constraint(m1, Len(pitchers), Len(hitters),
                                              d, call.stack_num)
                ELSE m1
    IN  IF call.team_stack # None
          THEN add_teamstack_constraint(m2, Len(pitchers), d, call.team_stack,
                                        call.stack_num)
          ELSE m2

\* the selections that satisfy the constraints of the call in progress
CallFeasible ==
    Feasible(CallConstraints, Len(pitchers), Len(hitters),
             IF call.auto_stack THEN AllTeams ELSE {})

\* C21: the lineup stored after an OPTIMAL solve satisfies the base
\* constraints and the flexible constraints of its call, and no selection
\* satisfying them has more total projected points
C21_MaximumPoints ==
    [][ NumLineups' = NumLineups + 1 =>
          \A F \in {CallFeasible} :
            \A new \in {<< SelOf(binary_lineups_pitchers'[NumLineups + 1]),
                           SelOf(binary_lineups_hitters'[NumLineups + 1]) >>} :
              /\ new \in F
              /\ \A a \in F : Points(a[1], a[2]) <= Points(new[1], new[2])
      ]_vars

\* the variance constraint of a call has excluded the best lineup of the
\* roster: the second lineup of the session has fewer points than the first
C21_Witness ==
    /\ pc = "running" /\ i >= 1 /\ NumLineups = 2 /\ call.variance >= 1
    /\ Points(PSel(2), HSel(2)) < Points(PSel(1), HSel(1))

\* C22: a run_lineups call ends only after all its requested lineups were
\* attempted, whatever the outcome of the solves: when a solve ends
\* non-OPTIMAL, the attempts made (the i stored lineups and the failed one)
\* are all of num_lineups
C22_AllAttempted ==
    (pc = "raised" /\ status \in NonOptimal) => i + 1 = call.num_lineups

\* C23: in a call with team_stack set and stack_num = 0, no lineup of the
\* call includes a hitter of team team_stack
C23_StackZeroExcludesTeam ==
    (pc = "running" /\ call.team_stack # None /\ call.stack_num = 0) =>
        \A k \in OfThisCall : OnTeam(k, call.team_stack) = 0

\* the number of rows lineup k and lineup m of the session both select
Shared(bp, bh, k, m) ==
    Cardinality(SelOf(bp[k]) \cap SelOf(bp[m]))
    + Cardinality(SelOf(bh[k]) \cap SelOf(bh[m]))

\* C25: the lineups stored by earlier run_lineups calls stay in the session,
\* and every lineup a later call stores shares at most 10 - variance rows
\* (variance of the later call) with each of them, whatever the settings
\* they were generated with
C25_HistoryAcrossCalls ==
    [][ NumLineups' = NumLineups + 1 =>
          \A k \in 1..(NumLineups - i) :
            /\ binary_lineups_pitchers'[k] = binary_lineups_pitchers[k]
            /\ binary_lineups_hitters'[k] = binary_lineups_hitters[k]
            /\ Shared(binary_lineups_pitchers', binary_lineups_hitters',
                      k, NumLineups + 1) <= 10 - call.variance
      ]_vars

\* two equal lineups were stored by a call with variance 0; a later call
\* with positive variance has stored a third one that shares some rows,
\* but at most 10 - variance, with them
C25_Witness ==
    /\ pc = "running" /\ i = 1 /\ NumLineups = 3 /\ call.variance >= 1
    /\ binary_lineups_hitters[1] = binary_lineups_hitters[2]
    /\ binary_lineups_pitchers[1] = binary_lineups_pitchers[2]
    /\ Shared(binary_lineups_pitchers, binary_lineups_hitters, 1, 3) >= 1
    /\ Shared(binary_lineups_pitchers, binary_lineups_hitters, 1, 3)
           <= 10 - call.variance

\* C26: an attempt whose solve ends non-OPTIMAL appends nothing: the four
\* session lists hold exactly the entries they held before the attempt
C26_FailureAppendsNothing ==
    [][ (pc = "running" /\ i < call.num_lineups /\ status' \in NonOptimal) =>
          /\ pitcher_indexes' = pitcher_indexes
          /\ hitter_indexes' = hitter_indexes
          /\ binary_lineups_pitchers' = binary_lineups_pitchers
          /\ binary_lineups_hitters' = binary_lineups_hitters
      ]_vars

\* a solve has ended INFEASIBLE in a session that holds two lineups
C26_Witness ==
    /\ status = "INFEASIBLE" /\ NumLineups = 2
    /\ Len(pitcher_indexes) = 2 /\ Len(hitter_indexes) = 2
    /\ Len(binary_lineups_pitchers) = 2

\* C27: the four session lists have the same length, and entry k of each
\* describes one lineup: the binary vectors of entry k hold exactly 2 and 8
\* ones, at the rows the index lists of entry k name
C27_ListsAligned ==
    /\ Len(pitcher_indexes) = Len(hitter_indexes)
    /\ Len(binary_lineups_pitchers) = Len(pitcher_indexes)
    /\ Len(binary_lineups_hitters) = Len(pitcher_indexes)
    /\ \A k \in 1..Len(pitcher_indexes) :
          /\ Cardinality(SelOf(binary_lineups_pitchers[k])) = 2
          /\ Cardinality(SelOf(binary_lineups_hitters[k])) = 8
          /\ SelOf(binary_lineups_pitchers[k])
                = {n + 1 : n \in Range(pitcher_indexes[k])}
          /\ SelOf(binary_lineups_hitters[k])
                = {n + 1 : n \in Range(hitter_indexes[k])}

\* a session of three lineups, stored by more than one call, whose first
\* and last entries name different rows
C27_Witness ==
    /\ NumLineups = 3 /\ pc = "running" /\ i = 1
    /\ hitter_indexes[1] # hitter_indexes[3]
    /\ SelOf(binary_lineups_hitters[3])
          = {n + 1 : n \in Range(hitter_indexes[3])}

\* C28: building the base model raises no error, also for a roster with a
\* pitcher whose team is no hitter's opponent and for a roster with a game
\* that has pitcher rows but no hitter rows: the only KeyError of a session
\* is that of a team_stack value that is no team of the roster
C28_BaseModelBuilds ==
    raised = "KeyError" =>
        (call.team_stack # None /\ call.team_stack \notin AllTeams)

(***************************************************************************)
(* csv_output: the uploadable file, as the list of the rows written.       *)
(***************************************************************************)
\* the header row
Header == << "P", "P", "C", "1B", "2B", "3B", "SS", "OF", "OF", "OF" >>

\* DataFrame.loc[labels]: the rows with these index labels, in list order
\* (the label of a row is its "index" value, its 0-based position)
LocRows(rows, labels) == [k \in 1..Len(labels) |-> rows[labels[k] + 1]]

\* the "Name + ID" values of the rows of df whose position is in positions
Cells(df, positions) ==
    [k \in 1..Len(SelectSeq(df, LAMBDA r : r.Position \in positions)) |->
        SelectSeq(df, LAMBDA r : r.Position \in positions)[k].NameID]

\* variant: the pitcher cells are the rows whose position equals "P"
csv_row_exact(hs, ps, pidx, hidx) ==
    LET lineup_df == LocRows(ps, pidx) \o LocRows(hs, hidx)
    IN  Cells(lineup_df, {"P"})
        \o Cells(lineup_df, {"C"}) \o Cells(lineup_df, {"1B"})
        \o Cells(lineup_df, {"2B"}) \o Cells(lineup_df, {"3B"})
        \o Cells(lineup_df, {"SS"}) \o Cells(lineup_df, {"OF"})

\* one row of the file (optimizer_mlb.py 601-629): the pitchers are the
\* rows whose position contains "P"
csv_row(hs, ps, pidx, hidx) ==
    LET lineup_df == LocRows(ps, pidx) \o LocRows(hs, hidx)
    IN  Cells(lineup_df, {"P", "SP", "RP"})
        \o Cells(lineup_df, {"C"}) \o Cells(lineup_df, {"1B"})
        \o Cells(lineup_df, {"2B"}) \o Cells(lineup_df, {"3B"})
        \o Cells(lineup_df, {"SS"}) \o Cells(lineup_df, {"OF"})

csv_output(hs, ps, pitcher_indexes_, hitter_indexes_) ==
    << Header >>
    \o [k \in 1..Len(pitcher_indexes_) |->
          csv_row(hs, ps, pitcher_indexes_[k], hitter_indexes_[k])]

\* csv_output is called between two run_lineups calls; before the first
\* run_lineups call the object has no pitcher_indexes attribute
CsvOutput ==
    /\ pc = "idle"
    /\ IF ~has_lists
         THEN /\ pc' = "raised" /\ raised' = "AttributeError"
              /\ UNCHANGED csv_file
       ELSE IF Len(pitcher_indexes) # Len(hitter_indexes)
         THEN /\ pc' = "raised" /\ raised' = "AssertionError"
              /\ UNCHANGED csv_file
       ELSE /\ csv_file' = csv_output(hitters, pitchers, pitcher_indexes,
                                      hitter_indexes)
            /\ UNCHANGED << pc, raised >>
    /\ UNCHANGED << hitters, pitchers, has_model, model, has_lists,
                    pitcher_indexes, hitter_indexes, binary_lineups_pitchers,
                    binary_lineups_hitters, call, i, status >>
    /\ UNCHANGED << data, tables, main_pc >>

\* the run_lineups calls explored in sessions that export: a call with
\* variance, the call of main.py, and a team stack of 0 hitters
CallsCsv == { Args(FALSE, None, 4, 2), Args(TRUE, None, 4, 2),
              Args(FALSE, "A", 0, 0) }

NextCsv ==
    \/ \E num \in 0..MaxNum, c \in CallsCsv :
          RunLineups(num, c.auto_stack, c.team_stack, c.stack_num, c.variance)
    \/ Iterate
    \/ Complete
    \/ CsvOutput

\* sessions of run_lineups calls and exports
SpecCsv == Init /\ [][NextCsv]_vars

\* C24: csv_output writes the header row first and then one row per stored
\* lineup; row k has exactly 10 cells: the display strings of the 2 selected
\* pitchers, then of the selected hitters at C, 1B, 2B, 3B, SS and of the 3
\* at OF, every selected player in one cell
C24_CsvRows ==
    [][ csv_file' # csv_file =>
          /\ Len(csv_file') = 1 + NumLineups
          /\ csv_file'[1] = << "P", "P", "C", "1B", "2B", "3B", "SS",
                               "OF", "OF", "OF" >>
          /\ \A k \in 1..NumLineups :
               \A row \in {csv_file'[k + 1]} :
                 /\ Len(row) = 10
                 /\ \A c \in 1..2 :
                       \E j \in PSel(k) : row[c] = pitchers[j].NameID
                 /\ \A c \in 3..10 :
                       \E j \in HSel(k) :
                          /\ row[c] = hitters[j].NameID
                          /\ hitters[j].Position = csv_file'[1][c]
                 /\ {row[c] : c \in 1..10}
                       = {pitchers[j].NameID : j \in PSel(k)}
                           \cup {hitters[j].NameID : j \in HSel(k)}
                 /\ Cardinality({row[c] : c \in 1..10}) = 10
      ]_vars

\* a file of two different lineup rows was written, one of them with the
\* player that has two rows in the hitters table
C24_Witness ==
    /\ Len(csv_file) = 3 /\ csv_file[2] # csv_file[3]
    /\ \E c \in 3..10 : csv_file[3][c] = "zed (id)"

(***************************************************************************)
(* data_processing and the entry point main.py.  A position string is      *)
(* modelled as the sequence of its "/"-separated parts until dual_position *)
(* has replaced it by one part; a fractional projection is modelled as its *)
(* number of hundredths.                                                   *)
(***************************************************************************)
\* the missing value of a left merge, in a column of strings and in a
\* column of numbers (no number of the tables is negative)
NaN == "NaN"
NaNum == 0 - 1

\* a row of the DraftKings table and a row of the projection table
DkRow(name, parts, salary, game) ==
    [Name |-> name, NameID |-> name \o " (id)", Position |-> parts,
     Salary |-> salary, Game |-> game]
ProjRow(first, last, team, opp, hundredths) ==
    [first_name |-> first, last_name |-> last, team |-> team, opp |-> opp,
     ppg_projection |-> hundredths]

RECURSIVE merge_data(_, _, _)
\* dk.merge(proj, how="left", left_on="Name", right_on="full_name"), from
\* row `from` of dk on: a row for every match, NaN where there is none
merge_data(dk, proj, from) ==
    IF from > Len(dk) THEN << >>
    ELSE LET l == dk[from]
             matches == SelectSeq(proj, LAMBDA r :
                           r.first_name \o " " \o r.last_name = l.Name)
             joined == [k \in 1..Len(matches) |->
                          [Name |-> l.Name, NameID |-> l.NameID,
                           Position |-> l.Position, Salary |-> l.Salary,
                           Game |-> l.Game, team |-> matches[k].team,
                           opp |-> matches[k].opp,
                           ppg_projection |-> matches[k].ppg_projection]]
             alone == << [Name |-> l.Name, NameID |-> l.NameID,
                          Position |-> l.Position, Salary |-> l.Salary,
                          Game |-> l.Game, team |-> NaN, opp |-> NaN,
                          ppg_projection |-> NaNum] >>
         IN  (IF Len(matches) = 0 THEN alone ELSE joined)
             \o merge_data(dk, proj, from + 1)

\* df[df[point_col] > point_minimum]: NaN compares False
above_minimum(df, point_minimum) ==
    SelectSeq(df, LAMBDA r : r.ppg_projection # NaNum
                             /\ r.ppg_projection > 100 * point_minimum)

\* int_cols: the projection times 10, cut to an integer
int_cols(df) ==
    [k \in 1..Len(df) |->
        [df[k] EXCEPT !.ppg_projection = (@ * 10) \div 100]]

\* dual_position: `inplace` is the caller's table after the call (every
\* position replaced by its first part), `returned` the table returned
\* (the former followed by the dual rows with their second part)
dual_position(df) ==
    LET duals == SelectSeq(df, LAMBDA r : Len(r.Position) > 1)
        first == [k \in 1..Len(df) |->
                    [df[k] EXCEPT !.Position = df[k].Position[1]]]
        second == [k \in 1..Len(duals) |->
                    [duals[k] EXCEPT !.Position = duals[k].Position[2]]]
    IN  [inplace |-> first, returned |-> first \o second]

\* hitter_pitcher_split: the rows whose position contains "P" and the others
hitter_pitcher_split(df) ==
    [hitters  |-> reset_index(SelectSeq(df, LAMBDA r :
                                 r.Position \notin {"P", "SP", "RP"})),
     pitchers |-> reset_index(SelectSeq(df, LAMBDA r :
                                 r.Position \in {"P", "SP", "RP"}))]

\* transform_data (data_processing.py 200-211): the value returned by
\* dual_position is not used
transform_data(dk, proj) ==
    hitter_pitcher_split(
        dual_position(int_cols(above_minimum(merge_data(dk, proj, 1), 1))).inplace)

\* OptimizerMLB.__init__(self, hitters, pitchers, dummies)
OptimizerMLB_init(hitters_, pitchers_, dummies_) ==
    [hitters |-> hitters_, pitchers |-> pitchers_, dummies |-> dummies_]

\* rows of the DraftKings table explored: a pitcher, a player with a dual
\* position, two hitters (one projected below the minimum) and a player
\* without a projection
DkRows == { DkRow("Al Po", << "SP" >>,       9000, "G1"),
            DkRow("Bo Du", << "2B", "SS" >>, 4000, "G1"),
            DkRow("Cy Ou", << "OF" >>,       3500, "G2"),
            DkRow("Di Lo", << "C" >>,        3000, "G2"),
            DkRow("Ed No", << "1B", "OF" >>, 3000, "G2") }

Projections == << ProjRow("Al", "Po", "A", "B", 1575),
                  ProjRow("Bo", "Du", "B", "A", 829),
                  ProjRow("Cy", "Ou", "C", "D", 710),
                  ProjRow("Di", "Lo", "D", "C", 95) >>

\* largest DraftKings table explored
MaxRows == 3

\* the DraftKings tables: up to MaxRows different rows, in any order
DkTables ==
    UNION { {t \in [1..n -> DkRows] :
               \A a, b \in 1..n : a # b => t[a] # t[b]} : n \in 0..MaxRows }

\* main.py before its first statement: the two csv files were read
InitMain ==
    /\ \E dk \in DkTables : data = [dk |-> dk, proj |-> Projections]
    /\ tables = NoTables /\ main_pc = "start"
    /\ hitters = << >> /\ pitchers = << >>
    /\ has_model = FALSE /\ model = << >>
    /\ has_lists = FALSE
    /\ pitcher_indexes = << >> /\ hitter_indexes = << >>
    /\ binary_lineups_pitchers = << >> /\ binary_lineups_hitters = << >>
    /\ pc = "none" /\ call = NoCall /\ i = 0
    /\ raised = "none" /\ status = "none"
    /\ csv_file = << >>

\* main.py 22: hitters, pitchers = transform_data(data_dk, data_proj)
TransformData ==
    /\ main_pc = "start"
    /\ tables' = transform_data(data.dk, data.proj)
    /\ main_pc' = "transformed"
    /\ UNCHANGED << hitters, pitchers, has_model, model, has_lists,
                    pitcher_indexes, hitter_indexes, binary_lineups_pitchers,
                    binary_lineups_hitters, pc, call, i, raised, status,
                    csv_file, data >>

\* main.py 23-25: dummies = create_dummy_dfs(hitters, pitchers);
\* optimizer = OptimizerMLB(pitchers, hitters, dummies)
CreateOptimizer ==
    /\ main_pc = "transformed"
    /\ \E self \in {OptimizerMLB_init(tables.pitchers, tables.hitters,
                       create_dummy_dfs(tables.hitters, tables.pitchers))} :
          /\ hitters' = self.hitters
          /\ pitchers' = self.pitchers
    /\ pc' = "idle"
    /\ main_pc' = "constructed"
    /\ UNCHANGED << has_model, model, has_lists, pitcher_indexes,
                    hitter_indexes, binary_lineups_pitchers,
                    binary_lineups_hitters, call, i, raised, status,
                    csv_file, data, tables >>

NextMain == TransformData \/ CreateOptimizer

\* the entry point up to the construction of the optimizer; the calls of
\* run_lineups and csv_output that follow are the actions of Spec and SpecCsv
SpecMain == InitMain /\ [][NextMain]_vars

\* the rows of the DraftKings table that transform_data keeps: those with a
\* projection above the minimum of 1 point
Kept(dk, proj) ==
    {k \in 1..Len(dk) :
        \E p \in 1..Len(proj) :
            /\ proj[p].first_name \o " " \o proj[p].last_name = dk[k].Name
            /\ proj[p].ppg_projection > 100}

\* C29: after transform_data, a kept player with a dual position is two
\* rows of the hitters table with the same name, one with the first and one
\* with the second position
C29_DualPositionTwoRows ==
    main_pc \in {"transformed", "constructed"} =>
        \A k \in Kept(data.dk, data.proj) :
            Len(data.dk[k].Position) = 2 =>
                \E a, b \in 1..Len(tables.hitters) :
                    /\ a # b
                    /\ tables.hitters[a].Name = data.dk[k].Name
                    /\ tables.hitters[b].Name = data.dk[k].Name
                    /\ tables.hitters[a].Position = data.dk[k].Position[1]
                    /\ tables.hitters[b].Position = data.dk[k].Position[2]

\* C30: in the entry point the optimizer's hitter roster is the hitters
\* table returned by transform_data and its pitcher roster is the pitchers
\* table
C30_RostersOfEntryPoint ==
    main_pc = "constructed" =>
        /\ hitters = tables.hitters
        /\ pitchers = tables.pitchers
====
